---------------------------- MODULE Spec2Model ----------------------------
(***************************************************************************)
(* A model of the region core of neighborhood-simulacrum:                  *)
(*   geo/models.py       AdminRegion and its seven concrete kinds          *)
(*   indicators/errors.py DataRetrievalError and its two variants          *)
(*                                                                         *)
(* Text is modelled as a sequence of one-character strings, so that        *)
(* formatting, splitting, lower-casing and slugifying are computed the way *)
(* the code computes them.  Python's None is the one-element sequence      *)
(* None, whose element is no character.                                    *)
(***************************************************************************)
EXTENDS Integers, Sequences, FiniteSets, TLC

VARIABLES
    regions,   \* the AdminRegion objects, in order of construction (index = id)
    errors,    \* the DataRetrievalError objects constructed so far
    result     \* what the last call returned: [op, arg, value]

vars == <<regions, errors, result>>

-----------------------------------------------------------------------------
(* Text                                                                    *)

None == <<"None">>

UpperLetters ==
    <<"A","B","C","D","E","F","G","H","I","J","K","L","M",
      "N","O","P","Q","R","S","T","U","V","W","X","Y","Z">>

LowerLetters ==
    <<"a","b","c","d","e","f","g","h","i","j","k","l","m",
      "n","o","p","q","r","s","t","u","v","w","x","y","z">>

Digits == {"0","1","2","3","4","5","6","7","8","9"}

Range(s) == {s[i] : i \in DOMAIN s}

\* str.lower() on one character
LowerChar(c) ==
    IF \E i \in DOMAIN UpperLetters : UpperLetters[i] = c
    THEN LowerLetters[CHOOSE i \in DOMAIN UpperLetters : UpperLetters[i] = c]
    ELSE c

\* str.upper() on one character
UpperChar(c) ==
    IF \E i \in DOMAIN LowerLetters : LowerLetters[i] = c
    THEN UpperLetters[CHOOSE i \in DOMAIN LowerLetters : LowerLetters[i] = c]
    ELSE c

\* str.lower()
Lower(s) == [i \in DOMAIN s |-> LowerChar(s[i])]

\* str.upper()
Upper(s) == [i \in DOMAIN s |-> UpperChar(s[i])]

\* str(x) as an f-string formats a field: None prints as the text "None"
Str(x) == IF x = None THEN <<"N","o","n","e">> ELSE x

\* Python truthiness of an optional text field: None and "" are both false
Truthy(x) == x # None /\ x # <<>>

-----------------------------------------------------------------------------
(* The region kinds: the direct subclasses of AdminRegion, in the order    *)
(* the module defines them, which is the order __subclasses__() lists them *)

NoClass == "NoClass"

Subclasses ==
    <<"BlockGroup", "Tract", "CountySubdivision", "County",
      "ZipCodeTabulationArea", "SchoolDistrict", "Neighborhood">>

Kinds == Range(Subclasses)

BLOCK_GROUP == <<"b","l","o","c","k","G","r","o","u","p">>
TRACT == <<"t","r","a","c","t">>
COUNTY_SUBDIVISION ==
    <<"c","o","u","n","t","y","S","u","b","d","i","v","i","s","i","o","n">>
SCHOOL_DISTRICT == <<"s","c","h","o","o","l","D","i","s","t","r","i","c","t">>
COUNTY == <<"c","o","u","n","t","y">>
ZCTA == <<"z","c","t","a">>
NEIGHBORHOOD == <<"n","e","i","g","h","b","o","r","h","o","o","d">>

geog_type_id(k) ==
    CASE k = "BlockGroup" -> BLOCK_GROUP
      [] k = "Tract" -> TRACT
      [] k = "CountySubdivision" -> COUNTY_SUBDIVISION
      [] k = "County" -> COUNTY
      [] k = "ZipCodeTabulationArea" -> ZCTA
      [] k = "SchoolDistrict" -> SCHOOL_DISTRICT
      [] k = "Neighborhood" -> NEIGHBORHOOD

geog_type_title(k) ==
    CASE k = "BlockGroup" -> <<"B","l","o","c","k"," ","G","r","o","u","p">>
      [] k = "Tract" -> <<"T","r","a","c","t">>
      [] k = "CountySubdivision" ->
            <<"C","o","u","n","t","y"," ","S","u","b","d","i","v","i","s","i","o","n">>
      [] k = "County" -> <<"C","o","u","n","t","y">>
      [] k = "ZipCodeTabulationArea" -> <<"Z","i","p"," ","C","o","d","e">>
      [] k = "SchoolDistrict" ->
            <<"S","c","h","o","o","l"," ","D","i","s","t","r","i","c","t">>
      [] k = "Neighborhood" -> <<"N","e","i","g","h","b","o","r","h","o","o","d">>

\* a suffix no type id carries
TYPO == <<"_","T","Y","P","O">>

\* the first class at or after position i whose type id equals name
RECURSIVE ScanExact(_, _)
ScanExact(name, i) ==
    IF i > Len(Subclasses) THEN NoClass
    ELSE IF geog_type_id(Subclasses[i]) = name THEN Subclasses[i]
    ELSE ScanExact(name, i + 1)

\* the first class at or after position i whose type id equals name, both lower-cased
RECURSIVE ScanLower(_, _)
ScanLower(name, i) ==
    IF i > Len(Subclasses) THEN NoClass
    ELSE IF Lower(geog_type_id(Subclasses[i])) = Lower(name) THEN Subclasses[i]
    ELSE ScanLower(name, i + 1)

\* a fallback pass that lower-cases the name but not the type id
RECURSIVE ScanLowerNameOnly(_, _)
ScanLowerNameOnly(name, i) ==
    IF i > Len(Subclasses) THEN NoClass
    ELSE IF geog_type_id(Subclasses[i]) = Lower(name) THEN Subclasses[i]
    ELSE ScanLowerNameOnly(name, i + 1)

\* find_subclass with that fallback pass
find_subclass_lower_name_only(name) ==
    IF ScanExact(name, 1) # NoClass THEN ScanExact(name, 1)
    ELSE ScanLowerNameOnly(name, 1)

\* AdminRegion.find_subclass: the case-sensitive pass, then the case-insensitive one
find_subclass(name) ==
    IF ScanExact(name, 1) # NoClass THEN ScanExact(name, 1)
    ELSE ScanLower(name, 1)

-----------------------------------------------------------------------------
(* A call records what it returned; the record is dropped when the stored  *)
(* regions change, so that it always speaks of the regions as they are     *)

NoResult == [op |-> "none", arg |-> <<>>, value |-> <<>>]

Init ==
    /\ regions = <<>>
    /\ errors = <<>>
    /\ result = NoResult

-----------------------------------------------------------------------------
(* django.utils.text.slugify (Django 3.2, allow_unicode=False) on ASCII    *)
(* text: lower-case, drop what is not a word character, whitespace or a    *)
(* hyphen, turn each run of hyphens and whitespace into one hyphen, strip  *)
(* leading and trailing hyphens and underscores                            *)

IsWordChar(c) ==
    c \in Range(LowerLetters) \cup Range(UpperLetters) \cup Digits \cup {"_"}

IsSpaceChar(c) == c = " "

IsDashOrSpace(c) == c = "-" \/ IsSpaceChar(c)

RECURSIVE CollapseDashes(_)
CollapseDashes(s) ==
    IF s = <<>> THEN <<>>
    ELSE IF IsDashOrSpace(Head(s))
         THEN IF Tail(s) # <<>> /\ IsDashOrSpace(Head(Tail(s)))
              THEN CollapseDashes(Tail(s))
              ELSE <<"-">> \o CollapseDashes(Tail(s))
         ELSE <<Head(s)>> \o CollapseDashes(Tail(s))

RECURSIVE StripLeft(_)
StripLeft(s) ==
    IF s # <<>> /\ Head(s) \in {"-", "_"} THEN StripLeft(Tail(s)) ELSE s

RECURSIVE StripRight(_)
StripRight(s) ==
    IF s # <<>> /\ s[Len(s)] \in {"-", "_"}
    THEN StripRight(SubSeq(s, 1, Len(s) - 1))
    ELSE s

KeepSlugChars(s) ==
    SelectSeq(s, LAMBDA c : IsWordChar(c) \/ IsSpaceChar(c) \/ c = "-")

slugify(value) == StripRight(StripLeft(CollapseDashes(KeepSlugChars(Lower(value)))))

-----------------------------------------------------------------------------
(* Region objects                                                          *)

\* Geometry is an interval <<lo, hi>> of a line, lo <= hi, measured in units
\* of the overlap tolerance; the empty geometry is <<>>.
EmptyGeom == <<>>

\* geom.transform(3857, clone=True)
transform(geom, srid) == <<srid>> \o geom

\* the object the constructor of kind p.kind builds from the field values p
NewRegion(p) ==
    [kind |-> p.kind,
     name |-> p.name,
     slug |-> p.slug,
     geog_type |-> p.geog_type,
     display_name |-> p.display_name,
     global_geoid |-> p.global_geoid,
     geoid |-> p.geoid,
     statefp |-> p.statefp,
     countyfp |-> p.countyfp,
     tractce |-> p.tractce,
     blkgrpce |-> p.blkgrpce,
     cousubfp |-> p.cousubfp,
     unsdlea |-> p.unsdlea,
     geom |-> p.geom,
     geom_webmercator |-> None,
     saves |-> 0]

\* the title property of each concrete kind
title(r) ==
    CASE r.kind = "BlockGroup" ->
            <<"B","l","o","c","k"," ","G","r","o","u","p"," ">> \o Str(r.geoid)
      [] r.kind = "Tract" -> <<"T","r","a","c","t"," ">> \o Str(r.geoid)
      [] r.kind = "CountySubdivision" -> Str(r.name)
      [] r.kind = "County" -> Str(r.name) \o <<" ","C","o","u","n","t","y">>
      [] r.kind = "ZipCodeTabulationArea" -> Str(r.name)
      [] r.kind = "SchoolDistrict" ->
            <<"Z","i","p"," ","c","o","d","e"," ">> \o Str(r.name)
      [] r.kind = "Neighborhood" -> Str(r.name)

\* the title property of the base class, which no concrete kind inherits
base_title(r) == IF Truthy(r.display_name) THEN r.display_name ELSE r.name

\* Geography.save
geography_save(r) ==
    IF r.geom_webmercator = None
    THEN [r EXCEPT !.geom_webmercator = transform(r.geom, "EPSG:3857")]
    ELSE r

\* a save that derives the slug whether or not one is set
admin_region_save_overwrites_slug(r) ==
    [geography_save(r) EXCEPT
        !.slug = slugify(geog_type_title(r.kind) \o <<"-">> \o Str(r.global_geoid)),
        !.geog_type = IF ~Truthy(r.geog_type) THEN geog_type_id(r.kind) ELSE r.geog_type,
        !.display_name = title(r),
        !.saves = r.saves + 1]

\* AdminRegion.save, with the Geography.save it ends in: the object afterwards
admin_region_save(r) ==
    [geography_save(r) EXCEPT
        !.slug = IF ~Truthy(r.slug)
                 THEN slugify(geog_type_title(r.kind) \o <<"-">> \o Str(r.global_geoid))
                 ELSE r.slug,
        !.geog_type = IF ~Truthy(r.geog_type) THEN geog_type_id(r.kind) ELSE r.geog_type,
        !.display_name = title(r),
        !.saves = r.saves + 1]

\* the rows of the table of kind k: the saved objects of that kind
Saved(k) == {i \in DOMAIN regions : regions[i].kind = k /\ regions[i].saves > 0}

MaxSaves == 2

\* Kind(**p): construct an object in memory
Create(p, max) ==
    /\ Len(regions) < max
    /\ regions' = Append(regions, NewRegion(p))
    /\ result' = NoResult
    /\ UNCHANGED errors

\* regions[i].save().  County.geoid is the primary key of its table: a second
\* County object with the geoid of a stored row is not a row of its own.
Save(i) ==
    /\ regions[i].saves < MaxSaves
    /\ regions[i].kind = "County" =>
           \A j \in Saved("County") \ {i} : regions[j].geoid # regions[i].geoid
    /\ regions' = [regions EXCEPT ![i] = admin_region_save(regions[i])]
    /\ result' = NoResult
    /\ UNCHANGED errors

\* Kind.objects.create(**p): construct and save
Import(p, max) ==
    /\ Len(regions) < max
    /\ p.kind = "County" =>
           \A j \in Saved("County") : regions[j].geoid # p.geoid
    /\ regions' = Append(regions, admin_region_save(NewRegion(p)))
    /\ result' = NoResult
    /\ UNCHANGED errors

-----------------------------------------------------------------------------
(* Spec: objects are constructed with caller-chosen field values and saved *)

MaxSaveRegions == 1

G42 == <<"4","2">>
G42003140100 == <<"4","2","0","0","3","1","4","0","1","0","0">>
GColon == <<"4",":","2">>
NameOz == <<"O","z">>
SlugMy == <<"m","y">>
DisplayDn == <<"D","n">>
UnitGeom == <<0, 4>>

\* the census fields of a kind that has them; a Neighborhood has none
Payload(k, slug, gt, dn, gg) ==
    [kind |-> k, name |-> NameOz, slug |-> slug, geog_type |-> gt,
     display_name |-> dn, global_geoid |-> gg,
     geoid |-> IF k = "Neighborhood" THEN None ELSE G42,
     statefp |-> IF k = "Neighborhood" THEN None ELSE <<"4">>,
     countyfp |-> IF k \in {"BlockGroup", "Tract", "CountySubdivision", "County"}
                  THEN <<"2">> ELSE None,
     tractce |-> IF k \in {"BlockGroup", "Tract"} THEN <<"1">> ELSE None,
     blkgrpce |-> IF k = "BlockGroup" THEN <<"7">> ELSE None,
     cousubfp |-> IF k = "CountySubdivision" THEN <<"9">> ELSE None,
     unsdlea |-> IF k = "SchoolDistrict" THEN <<"5">> ELSE None,
     geom |-> UnitGeom]

SavePayloads ==
    {Payload(k, slug, given[1], given[2], gg) :
        k \in Kinds, slug \in {None, <<>>, SlugMy},
        given \in {<<None, None>>, <<COUNTY, None>>, <<None, DisplayDn>>},
        gg \in {None, G42003140100, GColon}}

CreateForSave == \E p \in SavePayloads : Create(p, MaxSaveRegions)

SaveAny == \E i \in DOMAIN regions : Save(i)

Next == CreateForSave \/ SaveAny

Spec == Init /\ [][Next]_vars

\* the step is a save of object i
IsSaveOf(i) == regions'[i].saves > regions[i].saves

UrlSafe(s) == \A j \in DOMAIN s : s[j] \in Range(LowerLetters) \cup Digits \cup {"-", "_"}

\* C8: a save of a record with no slug sets the slug to the lower-cased,
\* hyphen-joined form of (type title, globalGeoid), which for a one-word title
\* and a geoid of digits is lower(title) "-" geoid; a save of a record that
\* has a slug keeps it, so the slug of a saved record never changes again.
SlugDerivedOnceThenKept ==
    [][\A i \in DOMAIN regions :
          LET r == regions[i]
              r2 == regions'[i]
              joined == geog_type_title(r.kind) \o <<"-">> \o Str(r.global_geoid)
          IN  /\ (IsSaveOf(i) /\ ~Truthy(r.slug)) =>
                    /\ r2.slug = slugify(joined)
                    /\ UrlSafe(r2.slug)
                    /\ (Range(joined) \subseteq
                            Range(LowerLetters) \cup Range(UpperLetters)
                                \cup Digits \cup {"-"})
                          => r2.slug = Lower(joined)
                    /\ (r.kind = "Tract" /\ r.global_geoid = G42003140100) =>
                          r2.slug = <<"t","r","a","c","t","-",
                                      "4","2","0","0","3","1","4","0","1","0","0">>
              /\ (IsSaveOf(i) /\ Truthy(r.slug)) => r2.slug = r.slug
              /\ r.saves > 0 => r2.slug = r.slug]_vars

\* a tract built without a slug has been saved twice and carries the derived slug
SlugWitness ==
    \E i \in DOMAIN regions :
        /\ regions[i].kind = "Tract"
        /\ regions[i].saves = 2
        /\ regions[i].global_geoid = G42003140100
        /\ regions[i].slug = <<"t","r","a","c","t","-",
                               "4","2","0","0","3","1","4","0","1","0","0">>

\* C9, as the claim states it: a save keeps a displayName that was set,
\* replaces an absent one by the kind's title, and leaves neither slug nor
\* displayName null.
DisplayNameKeptBySave ==
    [][\A i \in DOMAIN regions :
          LET r == regions[i]
              r2 == regions'[i]
          IN  IsSaveOf(i) =>
                /\ Truthy(r.display_name) => r2.display_name = r.display_name
                /\ ~Truthy(r.display_name) => r2.display_name = title(r)
                /\ r2.slug # None
                /\ r2.display_name # None]_vars

\* C10, as the claim states it: once a record has been saved its geogType is
\* the type tag of its concrete kind, whatever the caller supplied.
GeogTypeIsKindTag ==
    \A i \in DOMAIN regions :
        regions[i].saves > 0 => regions[i].geog_type = geog_type_id(regions[i].kind)

-----------------------------------------------------------------------------
(* The uid of a region and its resolution                                  *)

\* AdminRegion.uid
uid(r) == Str(r.geog_type) \o <<":">> \o Str(r.global_geoid)

\* str.split(sep): the pieces between every occurrence of sep
RECURSIVE split(_, _)
split(s, sep) ==
    IF \A j \in DOMAIN s : s[j] # sep THEN <<s>>
    ELSE LET at == CHOOSE j \in DOMAIN s :
                      s[j] = sep /\ \A h \in 1..(j - 1) : s[h] # sep
         IN  <<SubSeq(s, 1, at - 1)>> \o split(SubSeq(s, at + 1, Len(s)), sep)

\* what a call does: it returns a value or raises an exception
Return(v) == [outcome |-> "return", v |-> v]
Raises(exc) == [outcome |-> "raise", v |-> exc]

\* the absent object, None where an object is expected; objects are ids >= 1
NoRegion == 0

\* QuerySet.get() on the rows (ids) a filter selects
objects_get(rows) ==
    IF rows = {} THEN Raises("DoesNotExist")
    ELSE IF Cardinality(rows) > 1 THEN Raises("MultipleObjectsReturned")
    ELSE Return(CHOOSE i \in rows : TRUE)

\* AdminRegion.from_uid: an IndexError (no second part) is caught and gives
\* None, an unknown type tag falls off the end of the function and gives None
from_uid(u) ==
    LET parts == split(u, ":")
    IN  IF Len(parts) < 2 THEN Return(NoRegion)
        ELSE LET geog_type == find_subclass(parts[1])
                 geog_id == parts[2]
             IN  IF geog_type # NoClass
                 THEN objects_get({i \in Saved(geog_type) :
                                      regions[i].global_geoid = geog_id})
                 ELSE Return(NoRegion)

FromUidCall(u) ==
    /\ result' = [op |-> "from_uid", arg |-> u, value |-> from_uid(u)]
    /\ UNCHANGED <<regions, errors>>

-----------------------------------------------------------------------------
(* SpecUid: regions are imported, uids are resolved                        *)

MaxUidRegions == 2

\* a region of kind k with globalGeoid gg, as an import creates it: no slug,
\* geogType or displayName given
UidPayloads == {Payload(k, None, None, None, gg) : k \in Kinds, gg \in {G42, G42003140100, GColon}}

UidProbes ==
    {<<>>, TRACT, TRACT \o <<":">> \o G42, <<"T","r","a","c","t">> \o <<":">> \o G42,
     Upper(TRACT) \o TYPO \o <<":">> \o G42, NEIGHBORHOOD \o <<":">> \o <<"4">>,
     <<"p","u","m","a">> \o <<":">> \o G42}

ImportForUid == \E p \in UidPayloads : Import(p, MaxUidRegions)

ResolveUid ==
    \E u \in UidProbes \cup {uid(regions[i]) : i \in DOMAIN regions} : FromUidCall(u)

NextUid == ImportForUid \/ ResolveUid

SpecUid == Init /\ [][NextUid]_vars

\* C1, as the claim states it: the uid of every saved record parses back to
\* (geogType, globalGeoid), and from_uid on it returns a record of the same
\* kind with the same globalGeoid.
UidRoundTrip ==
    result.op = "from_uid" =>
        \A i \in DOMAIN regions :
            (regions[i].saves > 0 /\ uid(regions[i]) = result.arg) =>
                LET parts == split(result.arg, ":")
                    got == result.value
                IN  /\ Len(parts) >= 2
                    /\ parts[1] = regions[i].geog_type
                    /\ parts[2] = regions[i].global_geoid
                    /\ got.outcome = "return"
                    /\ got.v \in DOMAIN regions
                    /\ regions[got.v].kind = regions[i].kind
                    /\ regions[got.v].global_geoid = regions[i].global_geoid

\* C2, as the claim states it: from_uid always returns, and what it returns is
\* the record of the named kind with that globalGeoid, or None when the uid
\* has no ':', the tag names no kind, or no record of the kind has the geoid.
FromUidNeverRaises ==
    result.op = "from_uid" =>
        LET parts == split(result.arg, ":")
            got == result.value
            cls == IF Len(parts) >= 2 THEN find_subclass(parts[1]) ELSE NoClass
            rows == IF cls = NoClass THEN {}
                    ELSE {i \in Saved(cls) : regions[i].global_geoid = parts[2]}
        IN  /\ got.outcome = "return"
            /\ rows = {} => got.v = NoRegion
            /\ rows # {} => got.v \in rows

\* C13, as the claim states it: for a uid with a ':' the type tag is the text
\* before the first ':' and the geoid looked up is all of the text after it,
\* so from_uid gives what a lookup of that geoid in the tag's kind gives.
UidSplitsOnFirstColon ==
    (result.op = "from_uid" /\ \E j \in DOMAIN result.arg : result.arg[j] = ":") =>
        LET u == result.arg
            first == CHOOSE j \in DOMAIN u : u[j] = ":" /\ \A h \in 1..(j - 1) : u[h] # ":"
            tag == SubSeq(u, 1, first - 1)
            rest == SubSeq(u, first + 1, Len(u))
            parts == split(u, ":")
        IN  /\ parts[1] = tag
            /\ parts[2] = rest
            /\ find_subclass(tag) # NoClass =>
                  result.value = objects_get({i \in Saved(find_subclass(tag)) :
                                                 regions[i].global_geoid = rest})

-----------------------------------------------------------------------------
(* Ancestor hierarchy                                                      *)

\* Centroid('geom'), in half units: twice the midpoint of the interval
Centroid(geom) == geom[1] + geom[2]

\* Kind.objects.annotate(centroid=Centroid('geom')).get(geoid=g): the row, with
\* its centroid attached
get_by_geoid(k, g) ==
    LET got == objects_get({i \in Saved(k) : regions[i].geoid = g})
    IN  IF got.outcome = "return"
        THEN Return([id |-> got.v, centroid |-> Centroid(regions[got.v].geom)])
        ELSE got

\* a list display [a, b]: a is evaluated first, and an exception ends it
ListOf(calls) ==
    IF \E j \in DOMAIN calls : calls[j].outcome = "raise"
    THEN calls[CHOOSE j \in DOMAIN calls :
                  calls[j].outcome = "raise"
                  /\ \A h \in 1..(j - 1) : calls[h].outcome = "return"]
    ELSE Return([j \in DOMAIN calls |-> calls[j].v])

\* the block group's list with the tract before the county
hierarchy_tract_first(r) ==
    CASE r.kind = "BlockGroup" ->
            ListOf(<<get_by_geoid("Tract", Str(r.statefp) \o Str(r.countyfp) \o Str(r.tractce)),
                     get_by_geoid("County", Str(r.statefp) \o Str(r.countyfp))>>)
      [] r.kind \in {"Tract", "CountySubdivision"} ->
            ListOf(<<get_by_geoid("County", Str(r.statefp) \o Str(r.countyfp))>>)
      [] OTHER -> Return(<<>>)

\* the hierarchy property of each concrete kind
hierarchy(r) ==
    CASE r.kind = "BlockGroup" ->
            ListOf(<<get_by_geoid("County", Str(r.statefp) \o Str(r.countyfp)),
                     get_by_geoid("Tract", Str(r.statefp) \o Str(r.countyfp) \o Str(r.tractce))>>)
      [] r.kind \in {"Tract", "CountySubdivision"} ->
            ListOf(<<get_by_geoid("County", Str(r.statefp) \o Str(r.countyfp))>>)
      [] r.kind \in {"County", "ZipCodeTabulationArea", "SchoolDistrict", "Neighborhood"} ->
            Return(<<>>)

HierarchyCall(i) ==
    /\ result' = [op |-> "hierarchy", arg |-> i, value |-> hierarchy(regions[i])]
    /\ UNCHANGED <<regions, errors>>

-----------------------------------------------------------------------------
(* SpecHier: census regions of two counties are imported, hierarchies read *)

MaxHierRegions == 3

CountyCodes == {<<"2">>, <<"3">>}

\* a region of kind k in county c of state "4", with the geoid the census gives it
HierPayload(k, c) ==
    [Payload(k, None, None, None, None) EXCEPT
        !.countyfp = IF k \in {"BlockGroup", "Tract", "CountySubdivision", "County"}
                     THEN c ELSE None,
        !.geoid = CASE k = "County" -> <<"4">> \o c
                    [] k = "Tract" -> <<"4">> \o c \o <<"1">>
                    [] k = "BlockGroup" -> <<"4">> \o c \o <<"1">> \o <<"7">>
                    [] k = "CountySubdivision" -> <<"4">> \o c \o <<"9">>
                    [] k = "Neighborhood" -> None
                    [] OTHER -> <<"4","8">>]

HierPayloads == {HierPayload(k, c) : k \in Kinds, c \in CountyCodes}

ImportForHier == \E p \in HierPayloads : Import(p, MaxHierRegions)

ReadHierarchy == \E i \in DOMAIN regions : HierarchyCall(i)

NextHier == ImportForHier \/ ReadHierarchy

SpecHier == Init /\ [][NextHier]_vars

\* the kinds of the fixed ancestor chain of kind k, as the claim lists them
AncestorKinds(k) ==
    CASE k = "BlockGroup" -> <<"County", "Tract">>
      [] k = "Tract" -> <<"County">>
      [] k = "CountySubdivision" -> <<"County">>
      [] OTHER -> <<>>

\* the geoid of the j-th ancestor of r, as the claim gives it
AncestorGeoid(r, j) ==
    IF AncestorKinds(r.kind)[j] = "County"
    THEN r.statefp \o r.countyfp
    ELSE r.statefp \o r.countyfp \o r.tractce

\* the value is the ancestor chain of r: one record of each kind of the chain,
\* in its order, with the geoid the chain gives it
IsAncestorChain(r, value) ==
    /\ value.outcome = "return"
    /\ Len(value.v) = Len(AncestorKinds(r.kind))
    /\ \A j \in DOMAIN value.v :
          /\ value.v[j].id \in DOMAIN regions
          /\ regions[value.v[j].id].kind = AncestorKinds(r.kind)[j]
          /\ regions[value.v[j].id].geoid = AncestorGeoid(r, j)

HierarchyFailureIsMissingSource ==
    (result.op = "hierarchy" /\ result.value.outcome = "raise") =>
        result.value.v = "MissingSourceError"

-----------------------------------------------------------------------------
(* Lateral overlap                                                         *)

\* the inward tolerance of overlap, 0.001 degrees, is the unit of length
Tolerance == 1

\* geom.buffer(d): the interval grown by d on both sides; one shrunk to no
\* length is empty
buffer(geom, d) ==
    IF geom = EmptyGeom \/ geom[1] - d >= geom[2] + d THEN EmptyGeom
    ELSE <<geom[1] - d, geom[2] + d>>

\* the geom__intersects lookup: the two geometries share a point
intersects(a, b) ==
    /\ a # EmptyGeom
    /\ b # EmptyGeom
    /\ a[1] <= b[2]
    /\ b[1] <= a[2]

\* the kinds overlap looks at
OverlapSubclasses == <<"County", "CountySubdivision", "Neighborhood", "Tract">>

\* the rows of kind k whose geometry intersects that of r, shrunk
intersecting_geogs(k, r) ==
    {i \in Saved(k) : intersects(regions[i].geom, buffer(r.geom, 0 - Tolerance))}

summary(i) == [name |-> regions[i].name, slug |-> regions[i].slug, id |-> i]

\* an overlap that queries for a county as for any other region
overlap_no_county_case(r) ==
    [lists |-> [t \in {geog_type_id(k) : k \in Range(OverlapSubclasses)} |->
                   LET k == CHOOSE k \in Range(OverlapSubclasses) : geog_type_id(k) = t
                   IN  {summary(i) : i \in intersecting_geogs(k, r)}],
     queries |-> Len(OverlapSubclasses)]

\* AdminRegion.overlap: the dict it returns, each list as the set of its
\* elements (no order is asked of the query), and the number of queries issued
overlap(r) ==
    [lists |-> [t \in {geog_type_id(k) : k \in Range(OverlapSubclasses)} |->
                   LET k == CHOOSE k \in Range(OverlapSubclasses) : geog_type_id(k) = t
                   IN  IF geog_type_id(r.kind) = COUNTY THEN {}
                       ELSE {summary(i) : i \in intersecting_geogs(k, r)}],
     queries |-> IF geog_type_id(r.kind) = COUNTY THEN 0 ELSE Len(OverlapSubclasses)]

OverlapCall(i) ==
    /\ result' = [op |-> "overlap", arg |-> i, value |-> overlap(regions[i])]
    /\ UNCHANGED <<regions, errors>>

-----------------------------------------------------------------------------
(* SpecOverlap: regions with geometries are imported, overlaps read        *)

MaxOverlapRegions == 2

\* two regions that share a boundary point, one inside the first, and one
\* too small to survive the shrinking
Geoms == {<<0, 4>>, <<4, 8>>, <<1, 3>>, <<0, 1>>}

OverlapPayloads ==
    {[Payload(k, None, None, None, G42) EXCEPT !.geom = g] : k \in Kinds, g \in Geoms}

ImportForOverlap == \E p \in OverlapPayloads : Import(p, MaxOverlapRegions)

ReadOverlap == \E i \in DOMAIN regions : OverlapCall(i)

NextOverlap == ImportForOverlap \/ ReadOverlap

SpecOverlap == Init /\ [][NextOverlap]_vars

\* C4, as the claim states it: the overlap of a tract, county subdivision or
\* neighborhood never lists the region itself under its own kind tag.
OverlapExcludesSelf ==
    (result.op = "overlap"
        /\ regions[result.arg].kind \in {"Tract", "CountySubdivision", "Neighborhood"}) =>
        \A e \in result.value.lists[geog_type_id(regions[result.arg].kind)] :
            e.id # result.arg

\* C5: the overlap of a county has exactly the four candidate kind tags as
\* keys, each with an empty list, whatever is stored, and issues no query.
CountyOverlapIsEmpty ==
    (result.op = "overlap" /\ regions[result.arg].kind = "County") =>
        /\ DOMAIN result.value.lists = {COUNTY, COUNTY_SUBDIVISION, NEIGHBORHOOD, TRACT}
        /\ \A t \in DOMAIN result.value.lists : result.value.lists[t] = {}
        /\ result.value.queries = 0

\* the overlap of a county has been read while a tract inside it is stored
CountyOverlapWitness ==
    /\ result.op = "overlap"
    /\ regions[result.arg].kind = "County"
    /\ \E i \in Saved("Tract") :
          intersects(regions[i].geom, buffer(regions[result.arg].geom, 0 - Tolerance))

-----------------------------------------------------------------------------
(* Census query fragments                                                  *)

\* the dict {'for': f, 'in': i}
ForIn(f, i) == [for |-> f, in |-> i]

STATE_ == <<"s","t","a","t","e",":">>
COUNTY_ == <<"c","o","u","n","t","y",":">>
TRACT_ == <<"t","r","a","c","t",":">>

\* a block group fragment whose 'in' stops at the county, as a tract's does
census_geo_no_tract(r) ==
    CASE r.kind = "BlockGroup" ->
            Return(ForIn(<<"b","l","o","c","k"," ","g","r","o","u","p",":">> \o Str(r.blkgrpce),
                         STATE_ \o Str(r.statefp) \o <<" ">> \o COUNTY_ \o Str(r.countyfp)))
      [] OTHER -> Raises("AttributeError")

\* the census_geo property of each concrete kind.  ZipCodeTabulationArea reads
\* self.sldust, which no class defines, and Neighborhood has no census_geo.
census_geo(r) ==
    CASE r.kind = "BlockGroup" ->
            Return(ForIn(<<"b","l","o","c","k"," ","g","r","o","u","p",":">> \o Str(r.blkgrpce),
                         STATE_ \o Str(r.statefp) \o <<" ">> \o COUNTY_ \o Str(r.countyfp)
                             \o <<" ">> \o TRACT_ \o Str(r.tractce)))
      [] r.kind = "Tract" ->
            Return(ForIn(TRACT_ \o Str(r.tractce),
                         STATE_ \o Str(r.statefp) \o <<" ">> \o COUNTY_ \o Str(r.countyfp)))
      [] r.kind = "CountySubdivision" ->
            Return(ForIn(<<"c","o","u","n","t","y"," ","s","u","b","d","i","v","i","s","i","o","n",":">>
                             \o Str(r.cousubfp),
                         STATE_ \o Str(r.statefp) \o <<" ">> \o COUNTY_ \o Str(r.countyfp)))
      [] r.kind = "County" ->
            Return(ForIn(COUNTY_ \o Str(r.countyfp), STATE_ \o Str(r.statefp)))
      [] r.kind = "SchoolDistrict" ->
            Return(ForIn(TRACT_ \o Str(r.unsdlea), STATE_ \o Str(r.statefp)))
      [] r.kind \in {"ZipCodeTabulationArea", "Neighborhood"} -> Raises("AttributeError")

CensusGeoCall(i) ==
    /\ result' = [op |-> "census_geo", arg |-> i, value |-> census_geo(regions[i])]
    /\ UNCHANGED <<regions, errors>>

-----------------------------------------------------------------------------
(* SpecCensus: regions with census codes are imported, fragments read      *)

MaxCensusRegions == 2

StateCodes == {<<"4","2">>, <<"0","6">>}
CountyFips == {<<"0","0","3">>, <<"1","2","9">>}
TractCodes == {<<"1","4","0","1","0","0">>, <<"9","8">>}
BlockGroupCodes == {<<"1">>, <<"4">>}

CensusPayloads ==
    {[Payload("BlockGroup", None, None, None, st \o co \o tr \o bg) EXCEPT
          !.geoid = st \o co \o tr \o bg, !.statefp = st, !.countyfp = co,
          !.tractce = tr, !.blkgrpce = bg] :
        st \in StateCodes, co \in CountyFips, tr \in TractCodes, bg \in BlockGroupCodes}
    \cup {Payload(k, None, None, None, G42) : k \in Kinds}

ImportForCensus == \E p \in CensusPayloads : Import(p, MaxCensusRegions)

ReadCensusGeo == \E i \in DOMAIN regions : CensusGeoCall(i)

NextCensus == ImportForCensus \/ ReadCensusGeo

SpecCensus == Init /\ [][NextCensus]_vars

\* C11: the census_geo of a block group is {for: "block group:" + blkgrpce,
\* in: "state:" + statefp + " county:" + countyfp + " tract:" + tractce}; for
\* statefp 42, countyfp 003, tractce 140100, blkgrpce 1 it is
\* {for: "block group:1", in: "state:42 county:003 tract:140100"}.
BlockGroupCensusGeo ==
    (result.op = "census_geo" /\ regions[result.arg].kind = "BlockGroup") =>
        LET r == regions[result.arg]
            v == result.value
        IN  /\ v.outcome = "return"
            /\ DOMAIN v.v = {"for", "in"}
            /\ v.v["for"] = <<"b","l","o","c","k"," ","g","r","o","u","p",":">> \o r.blkgrpce
            /\ v.v["in"] = <<"s","t","a","t","e",":">> \o r.statefp
                             \o <<" ","c","o","u","n","t","y",":">> \o r.countyfp
                             \o <<" ","t","r","a","c","t",":">> \o r.tractce
            /\ (r.statefp = <<"4","2">> /\ r.countyfp = <<"0","0","3">>
                    /\ r.tractce = <<"1","4","0","1","0","0">> /\ r.blkgrpce = <<"1">>) =>
                  /\ v.v["for"] = <<"b","l","o","c","k"," ","g","r","o","u","p",":","1">>
                  /\ v.v["in"] = <<"s","t","a","t","e",":","4","2"," ",
                                   "c","o","u","n","t","y",":","0","0","3"," ",
                                   "t","r","a","c","t",":","1","4","0","1","0","0">>

\* the fragment of the block group 42 / 003 / 140100 / 1 has been read
BlockGroupCensusGeoWitness ==
    /\ result.op = "census_geo"
    /\ regions[result.arg].kind = "BlockGroup"
    /\ regions[result.arg].statefp = <<"4","2">>
    /\ regions[result.arg].countyfp = <<"0","0","3">>
    /\ regions[result.arg].tractce = <<"1","4","0","1","0","0">>
    /\ regions[result.arg].blkgrpce = <<"1">>
    /\ result.value.outcome = "return"
    /\ result.value.v["for"] = <<"b","l","o","c","k"," ","g","r","o","u","p",":","1">>

-----------------------------------------------------------------------------
(* SpecRegistry: find_subclass on type-tag strings                         *)

MaxFlip == 3

\* s with the case of the positions in mask swapped
FlipCase(s, mask) ==
    [i \in DOMAIN s |->
        IF i \in mask
        THEN (IF LowerChar(s[i]) = s[i] THEN UpperChar(s[i]) ELSE LowerChar(s[i]))
        ELSE s[i]]

TagVariants ==
    UNION {
        {FlipCase(geog_type_id(k), mask) : mask \in SUBSET (1..MaxFlip)}
            \cup {Upper(geog_type_id(k)), Lower(geog_type_id(k))}
        : k \in Kinds }

TagInputs ==
    TagVariants
        \cup {t \o TYPO : t \in TagVariants}
        \cup {<<>>, <<"p","l","a","c","e">>, <<"p","u","m","a">>}

FindSubclassCall(name) ==
    /\ result' = [op |-> "find_subclass", arg |-> name, value |-> find_subclass(name)]
    /\ UNCHANGED <<regions, errors>>

NextRegistry == \E name \in TagInputs : FindSubclassCall(name)

SpecRegistry == Init /\ [][NextRegistry]_vars

\* C6: find_subclass returns the kind whose type id equals the name exactly
\* if there is one, otherwise the kind whose type id equals it ignoring case
\* if there is one, otherwise no class; "Tract" and "tract" both give Tract
\* and "TRACT_TYPO" gives no class.
FindSubclassExactThenCaseless ==
    result.op = "find_subclass" =>
        LET name == result.arg
            v == result.value
            exact == {k \in Kinds : geog_type_id(k) = name}
            caseless == {k \in Kinds : Lower(geog_type_id(k)) = Lower(name)}
        IN  /\ exact # {} => v \in exact
            /\ (exact = {} /\ caseless # {}) => v \in caseless
            /\ (exact = {} /\ caseless = {}) => v = NoClass
            /\ name = <<"T","r","a","c","t">> => v = "Tract"
            /\ name = TRACT => v = "Tract"
            /\ name = Upper(TRACT) \o TYPO => v = NoClass

\* a tag that differs from a mixed-case type id only in case has been resolved
\* by the fallback pass, and a typo has been rejected
FindSubclassWitness ==
    /\ result.op = "find_subclass"
    /\ result.arg = Lower(BLOCK_GROUP)
    /\ result.value = "BlockGroup"

-----------------------------------------------------------------------------
(* SpecErrors: the data-retrieval errors and their reports                 *)

\* the members of indicators.utils.ErrorLevel
ErrorLevels == {"INFO", "EMPTY", "ERROR"}

ErrorClasses == {"DataRetrievalError", "AggregationError", "MissingSourceError"}

\* no instance attribute `level`: the class attribute is what a read finds
Unset == "unset"

\* the class attribute `level`
class_level(cls) ==
    CASE cls = "DataRetrievalError" -> "ERROR"
      [] cls = "AggregationError" -> "EMPTY"
      [] cls = "MissingSourceError" -> "ERROR"

\* DataRetrievalError.__init__(message, level): an enum member is truthy,
\* None (here Unset) is not
new_error(cls, message, level) ==
    [cls |-> cls, message |-> message,
     level |-> IF level # Unset THEN level ELSE Unset]

\* self.level
level_of(e) == IF e.level # Unset THEN e.level ELSE class_level(e.cls)

\* a report that reads the level from the base class
error_response_base_level(e) ==
    [level |-> class_level("DataRetrievalError"), message |-> e.message]

\* DataRetrievalError.error_response
error_response(e) == [level |-> level_of(e), message |-> e.message]

MaxErrors == 2

Messages ==
    {<<>>, <<"n","o"," ","d","a","t","a">>, <<"N","/","A",":"," ","0">>}

Raise(cls, message, level) ==
    /\ Len(errors) < MaxErrors
    /\ errors' = Append(errors, new_error(cls, message, level))
    /\ UNCHANGED <<regions, result>>

ErrorResponseCall(i) ==
    /\ result' = [op |-> "error_response", arg |-> i,
                  value |-> error_response(errors[i])]
    /\ UNCHANGED <<regions, errors>>

NextErrors ==
    \/ \E cls \in ErrorClasses, m \in Messages, l \in ErrorLevels \cup {Unset} :
          Raise(cls, m, l)
    \/ \E i \in DOMAIN errors : ErrorResponseCall(i)

SpecErrors == Init /\ [][NextErrors]_vars

\* C7: the report of an AggregationError built from a message alone has level
\* EMPTY, that of a MissingSourceError has level ERROR, the report's message
\* is the error's message, and taking the report leaves the error as it was.
ErrorReportKeepsMessage ==
    /\ [](result.op = "error_response" =>
            LET e == errors[result.arg]
                v == result.value
            IN  /\ v.message = e.message
                /\ (e.cls = "AggregationError" /\ e.level = Unset) => v.level = "EMPTY"
                /\ (e.cls = "MissingSourceError" /\ e.level = Unset) => v.level = "ERROR")
    /\ [][(result' # result /\ result'.op = "error_response") => errors' = errors]_vars

\* an AggregationError built from a non-empty message alone has been reported
ErrorReportWitness ==
    /\ result.op = "error_response"
    /\ errors[result.arg].cls = "AggregationError"
    /\ errors[result.arg].level = Unset
    /\ errors[result.arg].message = <<"n","o"," ","d","a","t","a">>
    /\ result.value = [level |-> "EMPTY", message |-> <<"n","o"," ","d","a","t","a">>]

=============================================================================
